---- MODULE Spec2Model ----
(***************************************************************************)
(* Model of dll/apisets/update.py: the ReactOS apiset forwarder generator. *)
(* The state is that of run(): the parsed Wine apisets, the ReactOS module *)
(* registry (module_lookup, function_lookup), the text written to every    *)
(* apiset's .spec file, the estimated sizes, and the CMakeLists manifest.  *)
(* The script is Python 2: dict and set iteration follow the hash table,   *)
(* not insertion order.  hash_order is that order on module names; every   *)
(* permutation is a possible one.                                          *)
(***************************************************************************)
EXTENDS Naturals, Integers, Sequences, FiniteSets, TLC

VARIABLES
    pc,               \* position in run(): parse, pass1, pass2, write, cmake, done, aborted
    idx,              \* index into wine_apisets of the loop the run is in
    apiset_lines,     \* the .spec lines of each Wine apiset, tokenised (input)
    module_lines,     \* the .spec lines of each ReactOS module, tokenised (input)
    hash_order,       \* iteration order of dicts and sets keyed by module name
    wine_apisets,     \* wine_apisets: per apiset its name and _entries
    module_lookup,    \* module_lookup: module name -> _entries of that SpecFile
    function_lookup,  \* function_lookup: function name -> owning module of each entry
    spec_out,         \* per apiset the lines written to its .spec file
    estimate_size,    \* per apiset SpecFile._estimate_size
    baseaddress,      \* run()'s baseaddress
    cmakelists,       \* the add_apiset lines written to CMakeLists.txt
    failure           \* the assertion that ended the run, "" while none has

vars == <<pc, idx, apiset_lines, module_lines, hash_order, wine_apisets,
          module_lookup, function_lookup, spec_out, estimate_size,
          baseaddress, cmakelists, failure>>

--------------------------------------------------------------------------
(* Bounds of the model *)

MaxApiLines == 3        \* lines of the apiset given to the resolver
MaxModLines == 2        \* lines of a module under one name (its variants)
MaxEmitLines == 2       \* lines of the apiset given to the emitter
MaxFuncs == 4           \* records under one name given to find_callconv
MaxManifest == 2        \* apisets written to the manifest
MaxManifestLines == 2   \* lines of each of them

--------------------------------------------------------------------------
(* class Arch *)

i386 == 1
x86_64 == 2
arm == 4
arm64 == 8
ArchNone == 0
ArchBits == {i386, x86_64, arm, arm64}

ArchHas(val, bit) == (val \div bit) % 2 = 1

RECURSIVE SumSet(_)
SumSet(S) == IF S = {} THEN 0
             ELSE LET b == CHOOSE b \in S : TRUE IN b + SumSet(S \ {b})

ArchAny == SumSet(ArchBits)

FROM_STR == [s \in {"i386", "x86_64", "arm", "arm64", "any", "win32", "win64"} |->
               CASE s = "i386" -> i386
                 [] s = "x86_64" -> x86_64
                 [] s = "arm" -> arm
                 [] s = "arm64" -> arm64
                 [] s = "any" -> ArchAny
                 [] s = "win32" -> i386
                 [] s = "win64" -> x86_64]

TO_STR == [b \in ArchBits |->
             CASE b = i386 -> "i386"
               [] b = x86_64 -> "x86_64"
               [] b = arm -> "arm"
               [] b = arm64 -> "arm64"]

\* Arch.__add__: self._val | other._val
ArchAdd(a, b) == SumSet({bit \in ArchBits : ArchHas(a, bit) \/ ArchHas(b, bit)})

\* Arch.__sub__: self._val & ~other._val
ArchSub(a, b) == SumSet({bit \in ArchBits : ArchHas(a, bit) /\ ~ArchHas(b, bit)})

\* Arch.__len__, which is also the truth value of an Arch
ArchLen(a) == Cardinality({bit \in ArchBits : ArchHas(a, bit)})

\* Mutant: the order by number of architectures
ArchGtByLen(a, b) == ArchLen(a) > ArchLen(b)

\* Arch.__gt__ compares the raw bit masks
ArchGt(a, b) == a > b

\* Mutant: to_str that stops at the first architecture it finds
ArchToStrFirst(a) ==
    LET bits == {b \in ArchBits : ArchHas(a, b)}
    IN {TO_STR[bit] : bit \in {b \in bits : \A c \in bits : b <= c}}

\* Arch.to_str: the names joined by ','; the join order is TO_STR's dict order,
\* so the text is kept as the set of names it lists
ArchToStr(a) == {TO_STR[bit] : bit \in {b \in ArchBits : ArchHas(a, b)}}

--------------------------------------------------------------------------
(* Module constants *)

FUNCTION_BLACKLIST == {"_abs64", "_byteswap_uint64", "_byteswap_ulong",
                       "_byteswap_ushort", "_rotl64", "_rotr64"}

AliasKeys == {"ucrtbase", "kernelbase", "shcore", "combase", "cfgmgr32", "wmi"}

ALIAS_DLL == [m \in AliasKeys |->
                CASE m = "ucrtbase" -> "msvcrt"
                  [] m = "kernelbase" -> "kernel32"
                  [] m = "shcore" -> "shlwapi"
                  [] m = "combase" -> "ole32"
                  [] m = "cfgmgr32" -> "setupapi"
                  [] m = "wmi" -> "advapi32"]

CmakeIgnore == {"ntdll", "kernel32", "self", "cfgmgr32", "wmi"}

StubSize == 4096
ForwardSize == 256
BaseStart == 1610612736
BaseAlign == 65536

None == "None"
Abort == "ABORT"

--------------------------------------------------------------------------
(* class SpecEntry *)

RECURSIVE SumFromStr(_)
SumFromStr(names) == IF names = <<>> THEN 0
                     ELSE FROM_STR[Head(names)] + SumFromStr(Tail(names))

\* Arch.add: self._val |= sum(FROM_STR[arch] for arch in text.split(','))
ArchAddText(val, names) ==
    LET s == SumFromStr(names)
    IN SumSet({bit \in ArchBits : ArchHas(val, bit) \/ ArchHas(s, bit)})

\* SpecEntry.__init__ and init() once the line is tokenised.  A line is
\* [ord, callconv, name, archs, fwd]: archs the names of its -arch= option
\* (<<>> without one), fwd the trailing token split at '.' (<<>> without one).
SpecEntryInit(line, spec) ==
    LET arch0 == IF line.archs = <<>> THEN ArchNone
                 ELSE ArchAddText(ArchNone, line.archs)
        arch1 == IF ArchLen(arch0) = 0 THEN ArchAny ELSE arch0
        fwd0 == IF Len(line.fwd) = 1 THEN <<"self", line.fwd[1]>> ELSE line.fwd
        fwd1 == IF fwd0 # <<>> /\ fwd0[1] \in AliasKeys
                THEN <<ALIAS_DLL[fwd0[1]], fwd0[2]>> ELSE fwd0
        noname == line.name = "@"
    IN [spec |-> spec,
        ord |-> line.ord,
        callconv |-> line.callconv,
        name |-> IF noname /\ fwd1 # <<>> THEN fwd1[2] ELSE line.name,
        arch |-> arch1,
        forwarder |-> fwd1,
        noname |-> noname]

\* SpecFile.parse: one entry per line, in file order
RECURSIVE ParseLines(_, _)
ParseLines(lines, spec) ==
    IF lines = <<>> THEN <<>>
    ELSE <<SpecEntryInit(Head(lines), spec)>> \o ParseLines(Tail(lines), spec)

--------------------------------------------------------------------------
(* class SpecFile: queries.  entries is SpecFile._entries *)

\* SpecFile.find: self._functions.get(name)
Find(entries, name) == SelectSeq(entries, LAMBDA e : e.name = name)

\* SpecFile.find_arch
RECURSIVE FindArchFrom(_, _)
FindArchFrom(functions, arch) ==
    IF functions = <<>> THEN arch
    ELSE FindArchFrom(Tail(functions), ArchAdd(arch, Head(functions).arch))

FindArch(entries, name) == FindArchFrom(Find(entries, name), ArchNone)

\* SpecFile.find_callconv over the records of one name; Abort when the
\* assertion 'Cannot have data/function with same name' fails
RECURSIVE FindCallconvFrom(_, _)
FindCallconvFrom(functions, callconv) ==
    IF functions = <<>> THEN callconv
    ELSE LET func == Head(functions)
         IN IF callconv = None
            THEN FindCallconvFrom(Tail(functions), func.callconv)
            ELSE IF callconv # func.callconv
                 THEN IF callconv = "extern" THEN Abort
                      ELSE FindCallconvFrom(Tail(functions), func.callconv)
                 ELSE FindCallconvFrom(Tail(functions), callconv)

FindCallconv(entries, name) == FindCallconvFrom(Find(entries, name), None)

\* SpecEntry.forwarder_module of every entry that has one, in entry order
RECURSIVE ForwarderModuleList(_)
ForwarderModuleList(entries) ==
    IF entries = <<>> THEN <<>>
    ELSE (IF Head(entries).forwarder # <<>> THEN <<Head(entries).forwarder[1]>> ELSE <<>>)
         \o ForwarderModuleList(Tail(entries))

Count(seq, x) == Cardinality({i \in DOMAIN seq : seq[i] = x})

Range(seq) == {seq[i] : i \in DOMAIN seq}

\* Mutant: the sort without reverse=True
RECURSIVE InsertByCountAscending(_, _, _)
InsertByCountAscending(sorted, m, used) ==
    IF sorted = <<>> THEN <<m>>
    ELSE IF Count(used, Head(sorted)) <= Count(used, m)
         THEN <<Head(sorted)>> \o InsertByCountAscending(Tail(sorted), m, used)
         ELSE <<m>> \o sorted

\* sorted(keys, key=count, reverse=True): stable, so equal counts keep the
\* order the keys are iterated in
RECURSIVE InsertByCount(_, _, _)
InsertByCount(sorted, m, used) ==
    IF sorted = <<>> THEN <<m>>
    ELSE IF Count(used, Head(sorted)) >= Count(used, m)
         THEN <<Head(sorted)>> \o InsertByCount(Tail(sorted), m, used)
         ELSE <<m>> \o sorted

RECURSIVE SortByCount(_, _)
SortByCount(keys, used) ==
    IF keys = <<>> THEN <<>>
    ELSE InsertByCount(SortByCount(SubSeq(keys, 1, Len(keys) - 1), used),
                       keys[Len(keys)], used)

\* Iteration of a dict or set whose keys are the module names in S
HashIter(S, order) == SelectSeq(order, LAMBDA m : m \in S)

\* SpecFile.forwarder_modules
ForwarderModules(entries, order) ==
    LET used == ForwarderModuleList(entries)
    IN SortByCount(HashIter(Range(used), order), used)


--------------------------------------------------------------------------
(* class SpecEntry: the two resolver passes *)

\* The loop of SpecEntry.resolve_forwarders over try_modules; entry has
\* _forwarder and arch already reset.  err names the assertion that failed, "" if none did.
RECURSIVE TryModules(_, _, _)
TryModules(entry, lookup, try_modules) ==
    IF try_modules = <<>> THEN [entry |-> entry, err |-> ""]
    ELSE LET module_name == Head(try_modules)
         IN IF module_name \notin DOMAIN lookup
            THEN [entry |-> entry, err |-> "module_name"]
            ELSE LET fwd_arch == FindArch(lookup[module_name], entry.name)
                     callconv == FindCallconv(lookup[module_name], entry.name)
                 IN IF callconv = Abort
                    THEN [entry |-> entry, err |-> "callconv"]
                    ELSE IF ArchLen(fwd_arch) # 0
                         THEN [entry |-> [entry EXCEPT !.arch = fwd_arch,
                                                       !.forwarder = <<module_name, entry.name>>,
                                                       !.callconv = callconv],
                               err |-> ""]
                         ELSE TryModules(entry, lookup, Tail(try_modules))

\* SpecEntry.resolve_forwarders
EntryResolveForwarders(entry, lookup, try_modules) ==
    IF entry.forwarder # <<>> /\ entry.forwarder[2] # entry.name
    THEN [entry |-> entry, err |-> "forwarder_name"]
    ELSE IF entry.noname /\ entry.name = "@"
         THEN [entry |-> entry, err |-> ""]
         ELSE TryModules([entry EXCEPT !.forwarder = <<>>, !.arch = ArchNone],
                         lookup, try_modules)

\* SpecFile.resolve_forwarders: every entry against the same candidate list
RECURSIVE ResolveAll(_, _, _)
ResolveAll(entries, lookup, modules) ==
    IF entries = <<>> THEN [entries |-> <<>>, err |-> ""]
    ELSE LET r == EntryResolveForwarders(Head(entries), lookup, modules)
         IN IF r.err # "" THEN [entries |-> <<r.entry>> \o Tail(entries), err |-> r.err]
            ELSE LET rest == ResolveAll(Tail(entries), lookup, modules)
                 IN [entries |-> <<r.entry>> \o rest.entries, err |-> rest.err]

\* The loop of SpecEntry.extra_forwarders over the exporting modules
RECURSIVE PickModule(_, _, _, _, _)
PickModule(modules, mod, arch, lookup, name) ==
    IF modules = <<>> THEN mod
    ELSE LET module == Head(modules)
             mod_arch == FindArch(lookup[module], name)
         IN IF mod = None \/ ArchGt(mod_arch, arch)
            THEN PickModule(Tail(modules), module, mod_arch, lookup, name)
            ELSE PickModule(Tail(modules), mod, arch, lookup, name)

\* SpecEntry.extra_forwarders from 'if self.noname and self.name == "@"' on
ExtraSearch(entry, flookup, lookup, order) ==
    IF entry.noname /\ entry.name = "@" THEN [entry |-> entry, err |-> ""]
    ELSE IF entry.name \notin DOMAIN flookup \/ flookup[entry.name] = <<>>
         THEN [entry |-> entry, err |-> ""]
    ELSE LET modules == HashIter(Range(flookup[entry.name]), order)
             mod == IF Len(modules) > 1
                    THEN PickModule(modules, None, ArchNone, lookup, entry.name)
                    ELSE modules[1]
             callconv == FindCallconv(lookup[mod], entry.name)
         IN IF callconv = Abort
            THEN [entry |-> [entry EXCEPT !.forwarder = <<mod, entry.name>>,
                                          !.arch = FindArch(lookup[mod], entry.name)],
                  err |-> "callconv"]
            ELSE [entry |-> [entry EXCEPT !.forwarder = <<mod, entry.name>>,
                                          !.arch = FindArch(lookup[mod], entry.name),
                                          !.callconv = callconv],
                  err |-> ""]

\* Mutant: pass 2 without its 'if self._forwarder: return 1'
EntryExtraForwardersUnguarded(entry, flookup, lookup, order) ==
    ExtraSearch(entry, flookup, lookup, order)

\* SpecEntry.extra_forwarders
EntryExtraForwarders(entry, flookup, lookup, order) ==
    IF entry.forwarder # <<>> THEN [entry |-> entry, err |-> ""]
    ELSE ExtraSearch(entry, flookup, lookup, order)

\* SpecFile.extra_forwarders
RECURSIVE ExtraAll(_, _, _, _)
ExtraAll(entries, flookup, lookup, order) ==
    IF entries = <<>> THEN [entries |-> <<>>, err |-> ""]
    ELSE LET r == EntryExtraForwarders(Head(entries), flookup, lookup, order)
         IN IF r.err # "" THEN [entries |-> <<r.entry>> \o Tail(entries), err |-> r.err]
            ELSE LET rest == ExtraAll(Tail(entries), flookup, lookup, order)
                 IN [entries |-> <<r.entry>> \o rest.entries, err |-> rest.err]

--------------------------------------------------------------------------
(* Emission *)

\* One line of an emitted .spec file: the fields of the format string.
\* has_arch tells whether opts holds an -arch= option, arch the names it lists.
StubLine(entry, name) ==
    [ord |-> entry.ord, callconv |-> "stub", noname |-> entry.noname,
     has_arch |-> FALSE, arch |-> {}, name |-> name, args |-> "", fwd |-> ""]

\* Mutant: the -arch= option written whatever the architecture set
ForwardLineAlwaysArch(entry, callconv, arch, name, args, fwd) ==
    [ord |-> entry.ord, callconv |-> callconv, noname |-> entry.noname,
     has_arch |-> TRUE, arch |-> ArchToStr(arch),
     name |-> name, args |-> args, fwd |-> fwd]

ForwardLine(entry, callconv, arch, name, args, fwd) ==
    [ord |-> entry.ord, callconv |-> callconv, noname |-> entry.noname,
     has_arch |-> arch # ArchAny,
     arch |-> IF arch # ArchAny THEN ArchToStr(arch) ELSE {},
     name |-> name, args |-> args, fwd |-> fwd]

\* SpecEntry.write: the lines written, the size estimate returned, and err,
\* the assertion of write that failed ("" if none)
RECURSIVE EntryWrite(_)
EntryWrite(entry) ==
    IF entry.name = "@" /\ entry.ord = "@"
    THEN [lines |-> <<>>, size |-> 0, err |-> "ord"]
    ELSE IF entry.forwarder = <<>>
    THEN [lines |-> <<StubLine(entry, IF entry.name = "@"
                                      THEN "Ordinal" \o entry.ord ELSE entry.name)>>,
          size |-> StubSize, err |-> ""]
    ELSE IF entry.arch = ArchNone
    THEN [lines |-> <<>>, size |-> 0, err |-> "arch"]
    ELSE LET name == IF ~entry.noname THEN entry.name ELSE "@"
             arch == entry.arch
         IN IF entry.callconv = "extern"
            THEN IF ArchHas(arch, x86_64)
                 THEN LET fwd == entry.forwarder[1] \o ".__imp_" \o entry.forwarder[2]
                          rest == EntryWrite([entry EXCEPT !.arch = ArchSub(arch, x86_64)])
                      IN IF rest.err # "" THEN rest
                         ELSE [lines |-> rest.lines \o
                                         <<ForwardLine(entry, "extern", x86_64, name, "", fwd)>>,
                               size |-> rest.size + ForwardSize, err |-> ""]
                 ELSE [lines |-> <<ForwardLine(entry, "extern", arch, name, "",
                                     entry.forwarder[1] \o "._imp__" \o entry.forwarder[2])>>,
                       size |-> ForwardSize, err |-> ""]
            ELSE [lines |-> <<ForwardLine(entry, "stdcall", arch, name, "()",
                                entry.forwarder[1] \o "." \o entry.forwarder[2])>>,
                  size |-> ForwardSize, err |-> ""]

\* SpecFile.write: entries in order, each name once, blacklisted names never
RECURSIVE FileWriteFrom(_, _)
FileWriteFrom(entries, written) ==
    IF entries = <<>> THEN [lines |-> <<>>, size |-> 0, err |-> ""]
    ELSE LET entry == Head(entries)
         IN IF entry.name \in written
            THEN FileWriteFrom(Tail(entries), written)
            ELSE LET w == EntryWrite(entry)
                 IN IF w.err # "" THEN w
                    ELSE LET rest == FileWriteFrom(Tail(entries), written \cup {entry.name})
                         IN [lines |-> w.lines \o rest.lines,
                             size |-> w.size + rest.size, err |-> rest.err]

\* Mutant: written starts empty
FileWriteNoBlacklist(entries) == FileWriteFrom(entries, {})

FileWrite(entries) == FileWriteFrom(entries, FUNCTION_BLACKLIST)

\* SpecFile.write_cmake: the add_apiset line
CmakeLine(name, entries, base, order) ==
    [name |-> name, baseaddress |-> base,
     fwd_strings |-> SelectSeq(ForwarderModules(entries, order),
                               LAMBDA x : x \notin CmakeIgnore)]

\* run(): baseaddress += size; baseaddress += (0x10000 - baseaddress) % 0x10000
NextBase(base, size) ==
    LET b == base + size IN b + ((BaseAlign - b) % BaseAlign)


--------------------------------------------------------------------------
(* run() *)

\* ros_modules in the order generate_specnames yields them
RosModules == <<"kernel32", "advapi32">>

\* SpecFile.add_functions over ros_modules: function_lookup[name] holds, per
\* entry of that name, the module (func.spec.name) it belongs to
RECURSIVE AddFunctions(_, _, _)
AddFunctions(mods, lookup, name) ==
    IF mods = <<>> THEN <<>>
    ELSE [i \in DOMAIN Find(lookup[Head(mods)], name) |-> Head(mods)]
         \o AddFunctions(Tail(mods), lookup, name)

EntryNames(lookup) == UNION {{lookup[m][i].name : i \in DOMAIN lookup[m]} : m \in DOMAIN lookup}

ApisetName(i) == "api-ms-win-" \o ToString(i)

\* run(): 'Parsing Wine apisets' and 'Parsing ReactOS modules'
Parse ==
    /\ pc = "parse"
    /\ LET lookup == [m \in Range(RosModules) |-> ParseLines(module_lines[m], m)]
       IN /\ module_lookup' = lookup
          /\ function_lookup' = [n \in EntryNames(lookup) |-> AddFunctions(RosModules, lookup, n)]
    /\ wine_apisets' = [i \in DOMAIN apiset_lines |->
                          [name |-> ApisetName(i),
                           entries |-> ParseLines(apiset_lines[i], ApisetName(i))]]
    /\ pc' = "pass1"
    /\ idx' = 1
    /\ UNCHANGED <<apiset_lines, module_lines, hash_order, spec_out, estimate_size,
                   baseaddress, cmakelists, failure>>

\* The end of one iteration of a 'for apiset in wine_apisets' loop
LoopStep(err, next_pc) ==
    /\ failure' = err
    /\ IF err # "" THEN pc' = "aborted" /\ idx' = idx
       ELSE IF idx < Len(wine_apisets) THEN pc' = pc /\ idx' = idx + 1
       ELSE pc' = next_pc /\ idx' = 1

\* run(): 'First pass, resolving forwarders', one apiset
FirstPass ==
    /\ pc = "pass1"
    /\ LET entries == wine_apisets[idx].entries
           r == ResolveAll(entries, module_lookup, ForwarderModules(entries, hash_order))
       IN /\ wine_apisets' = [wine_apisets EXCEPT ![idx].entries = r.entries]
          /\ LoopStep(r.err, "pass2")
    /\ UNCHANGED <<apiset_lines, module_lines, hash_order, module_lookup, function_lookup,
                   spec_out, estimate_size, baseaddress, cmakelists>>

\* run(): 'Second pass, searching extra forwarders', one apiset
SecondPass ==
    /\ pc = "pass2"
    /\ LET r == ExtraAll(wine_apisets[idx].entries, function_lookup, module_lookup, hash_order)
       IN /\ wine_apisets' = [wine_apisets EXCEPT ![idx].entries = r.entries]
          /\ LoopStep(r.err, "write")
    /\ UNCHANGED <<apiset_lines, module_lines, hash_order, module_lookup, function_lookup,
                   spec_out, estimate_size, baseaddress, cmakelists>>

\* run(): 'Writing apisets', one apiset.  SpecEntry.write puts self.arch back
\* after the recursive call, so the entries are as they were; a failed
\* assertion ends the run
WriteSpec ==
    /\ pc = "write"
    /\ LET w == FileWrite(wine_apisets[idx].entries)
       IN /\ spec_out' = Append(spec_out, w.lines)
          /\ estimate_size' = Append(estimate_size, w.size)
          /\ LoopStep(w.err, "cmake")
    /\ UNCHANGED <<apiset_lines, module_lines, hash_order, wine_apisets, module_lookup,
                   function_lookup, baseaddress, cmakelists>>

\* run(): 'Writing CMakeLists.txt', one apiset
WriteCMake ==
    /\ pc = "cmake"
    /\ cmakelists' = Append(cmakelists, CmakeLine(wine_apisets[idx].name,
                                                  wine_apisets[idx].entries,
                                                  baseaddress, hash_order))
    /\ baseaddress' = NextBase(baseaddress, estimate_size[idx])
    /\ LoopStep("", "done")
    /\ UNCHANGED <<apiset_lines, module_lines, hash_order, wine_apisets, module_lookup,
                   function_lookup, spec_out, estimate_size>>

Next == Parse \/ FirstPass \/ SecondPass \/ WriteSpec \/ WriteCMake

--------------------------------------------------------------------------
(* Inputs *)

\* Every name a dict or set of module names can hold
ModuleUniverse == Range(RosModules) \cup {"self"}

Perms(S) == {f \in [1..Cardinality(S) -> S] : \A i, j \in DOMAIN f : f[i] = f[j] => i = j}

SeqsUpTo(S, n) == UNION {[1..k -> S] : k \in 0..n}

OrdText(i) == ToString(i)

\* '@ stdcall Name() module.Name', '@ stdcall Name()', 'N stdcall @()', ...:
\* unnamed lines carry their line number as ordinal
ApiLine(i, name, fwd) ==
    [ord |-> IF name = "@" THEN OrdText(i) ELSE "@",
     callconv |-> "stdcall", name |-> name, archs |-> <<>>, fwd |-> fwd]

ModLine(callconv, name, archs) ==
    [ord |-> "@", callconv |-> callconv, name |-> name, archs |-> archs, fwd |-> <<>>]

\* The state run() starts in, the input files being those given
InitRun(apisets, modules, order) ==
    /\ pc = "parse"
    /\ idx = 1
    /\ apiset_lines = apisets
    /\ module_lines = modules
    /\ hash_order = order
    /\ wine_apisets = <<>>
    /\ module_lookup = <<>>
    /\ function_lookup = <<>>
    /\ spec_out = <<>>
    /\ estimate_size = <<>>
    /\ baseaddress = BaseStart
    /\ cmakelists = <<>>
    /\ failure = ""


\* Spec: the resolver and the emitter's name handling.  One apiset of up to
\* MaxApiLines lines: Foo with or without a forward target, an unnamed ordinal
\* with or without one, a blacklisted name; each module exports any of the
\* names it is asked for
ApiChoices == {[name |-> "Foo", fwd |-> <<>>],
               [name |-> "Foo", fwd |-> <<"kernel32", "Foo">>],
               [name |-> "Foo", fwd |-> <<"advapi32", "Foo">>],
               [name |-> "@", fwd |-> <<>>],
               [name |-> "@", fwd |-> <<"kernel32", "Foo">>],
               [name |-> "_rotl64", fwd |-> <<>>],
               [name |-> "_rotl64", fwd |-> <<"kernel32", "_rotl64">>]}

ApisetsOf(choices, n) ==
    UNION {{[i \in 1..k |-> ApiLine(i, c[i].name, c[i].fwd)] : c \in [1..k -> choices]}
           : k \in 0..n}

ExportsOf(names) ==
    {LET ns == SelectSeq(names, LAMBDA n : n \in S)
     IN [i \in 1..Len(ns) |-> ModLine("stdcall", ns[i], <<>>)] : S \in SUBSET Range(names)}

Init ==
    \E a \in ApisetsOf(ApiChoices, MaxApiLines), order \in Perms(Range(RosModules)) :
    \E k32 \in ExportsOf(<<"Foo", "_rotl64">>), adv \in ExportsOf(<<"Foo">>) :
        InitRun(<<a>>, [m \in Range(RosModules) |-> IF m = "kernel32" THEN k32 ELSE adv],
                order \o <<"self">>)

Spec == Init /\ [][Next]_vars

\* SpecExtra: pass 2.  One apiset line for Foo, with or without a forward
\* target; each module exports Foo in up to MaxModLines variants
VariantChoices == {ModLine("stdcall", "Foo", <<"i386", "x86_64">>),
                   ModLine("stdcall", "Foo", <<"arm">>),
                   ModLine("stdcall", "Foo", <<"i386">>),
                   ModLine("extern", "Foo", <<"i386">>)}

InitExtra ==
    \E fwd \in {<<>>, <<"kernel32", "Foo">>}, order \in Perms(Range(RosModules)) :
    \E mods \in [Range(RosModules) -> SeqsUpTo(VariantChoices, MaxModLines)] :
        InitRun(<<<<ApiLine(1, "Foo", fwd)>>>>, mods, order \o <<"self">>)

SpecExtra == InitExtra /\ [][Next]_vars

\* SpecEmit: SpecEntry.write.  kernel32 exports Foo as a function or as data
\* for any architecture set; the apiset has up to MaxEmitLines lines, Foo or
\* an unnamed ordinal, with or without a forward target
RECURSIVE SeqOfSet(_)
SeqOfSet(S) == IF S = {} THEN <<>>
               ELSE LET x == CHOOSE x \in S : TRUE IN <<x>> \o SeqOfSet(S \ {x})

ArchNames == {TO_STR[b] : b \in ArchBits}
ArchOptions == {<<>>} \cup {SeqOfSet(S) : S \in (SUBSET ArchNames) \ {{}, ArchNames}}

EmitChoices == {[name |-> "Foo", fwd |-> <<>>],
                [name |-> "Foo", fwd |-> <<"kernel32", "Foo">>],
                [name |-> "@", fwd |-> <<>>],
                [name |-> "@", fwd |-> <<"kernel32", "Foo">>]}

InitEmit ==
    \E a \in ApisetsOf(EmitChoices, MaxEmitLines) :
    \E k32 \in {<<>>} \cup {<<ModLine(cc, "Foo", archs)>> :
                              cc \in {"stdcall", "extern"}, archs \in ArchOptions} :
        InitRun(<<a>>, [m \in Range(RosModules) |-> IF m = "kernel32" THEN k32 ELSE <<>>],
                RosModules \o <<"self">>)

SpecEmit == InitEmit /\ [][Next]_vars

\* SpecCallconv: find_callconv.  kernel32 has up to MaxFuncs records of Foo,
\* functions of two conventions or data; the apiset forwards Foo to kernel32,
\* so that pass 1 asks kernel32 for the calling convention of Foo
InitCallconv ==
    \E order \in Perms(Range(RosModules)) :
    \E k32 \in SeqsUpTo({ModLine(cc, "Foo", <<>>) : cc \in {"stdcall", "cdecl", "extern"}},
                        MaxFuncs) :
        InitRun(<<<<ApiLine(1, "Foo", <<"kernel32", "Foo">>)>>>>,
                [m \in Range(RosModules) |-> IF m = "kernel32" THEN k32 ELSE <<>>],
                order \o <<"self">>)

SpecCallconv == InitCallconv /\ [][Next]_vars

\* SpecManifest: the manifest.  Up to MaxManifest apisets of up to
\* MaxManifestLines lines: a name nobody exports, a name advapi32 exports, a
\* forward through an aliased module, a forward within the apiset itself
ManifestChoices == {[name |-> "Baz", fwd |-> <<>>],
                    [name |-> "Bar", fwd |-> <<>>],
                    [name |-> "Foo", fwd |-> <<"kernelbase", "Foo">>],
                    [name |-> "Foo", fwd |-> <<"Foo">>]}

InitManifest ==
    \E n \in 1..MaxManifest, order \in Perms(ModuleUniverse) :
    \E apisets \in [1..n -> ApisetsOf(ManifestChoices, MaxManifestLines)] :
        InitRun(apisets,
                [m \in Range(RosModules) |->
                   IF m = "kernel32" THEN <<ModLine("stdcall", "Foo", <<>>)>>
                   ELSE <<ModLine("stdcall", "Bar", <<>>)>>],
                order)

SpecManifest == InitManifest /\ [][Next]_vars

--------------------------------------------------------------------------
(* Properties: vocabulary *)

Apisets == DOMAIN wine_apisets
Entries(a) == wine_apisets[a].entries
ParsedEntries(a) == ParseLines(apiset_lines[a], ApisetName(a))

\* Pass 1 has run on apiset a and pass 2 has not
AfterPass1(a) == (pc = "pass1" /\ a < idx) \/ (pc = "pass2" /\ a >= idx)
\* Pass 2 has run on apiset a
AfterPass2(a) == (pc = "pass2" /\ a < idx) \/ pc \in {"write", "cmake", "done"}
\* The .spec file of apiset a is written
Written(a) == (pc = "write" /\ a < idx) \/ pc \in {"cmake", "done"}

Exports(m, name) == Find(module_lookup[m], name) # <<>>
Exporters(name) == {m \in DOMAIN module_lookup : Exports(m, name)}
Lines(a) == Range(spec_out[a])

IndexIn(seq, x) == CHOOSE i \in DOMAIN seq : seq[i] = x /\ \A j \in 1..(i - 1) : seq[j] # x

\* m1 comes before m2 in the order the claim gives: more used, or as much
\* used and first seen earlier
BeforeFirstSeen(m1, m2, used) ==
    \/ Count(used, m1) > Count(used, m2)
    \/ Count(used, m1) = Count(used, m2) /\ IndexIn(used, m1) < IndexIn(used, m2)

\* m1 comes before m2 in the order of the code: more used, or as much used
\* and iterated earlier by the dict
BeforeHashed(m1, m2, used) ==
    \/ Count(used, m1) > Count(used, m2)
    \/ Count(used, m1) = Count(used, m2) /\ IndexIn(hash_order, m1) < IndexIn(hash_order, m2)

\* What C1 says of record i of apiset a, ties taken as the claim or as the code has them
Pass1Picks(a, i, as_code) ==
    LET e == Entries(a)[i]
        used == ForwarderModuleList(ParsedEntries(a))
        exporting == {m \in Range(used) : Exports(m, e.name)}
    IN (e.name # "@" /\ Range(used) \subseteq DOMAIN module_lookup) =>
         IF exporting = {} THEN e.forwarder = <<>>
         ELSE /\ e.forwarder # <<>>
              /\ e.forwarder[1] \in exporting
              /\ e.forwarder[2] = e.name
              /\ \A m \in exporting \ {e.forwarder[1]} :
                    IF as_code THEN BeforeHashed(e.forwarder[1], m, used)
                    ELSE BeforeFirstSeen(e.forwarder[1], m, used)

\* C1 as stated: after pass 1 every named record forwards to the first
\* candidate exporting its name, the candidates being the parse-time forward
\* modules by descending usage count, ties by first-seen order; it has no
\* forward target if no candidate exports the name.
C1_FirstSeenTies ==
    \A a \in Apisets : AfterPass1(a) =>
        \A i \in DOMAIN Entries(a) : Pass1Picks(a, i, FALSE)

\* C1 amended: the same, with ties between equally used candidates in the
\* iteration order of the (Python 2) dict that counts them.
C1_HashTies ==
    \A a \in Apisets : AfterPass1(a) =>
        \A i \in DOMAIN Entries(a) : Pass1Picks(a, i, TRUE)

\* Pass 1 resolved a record whose name two candidates of different usage
\* count export, to the candidate seen later at parse time
C1_Witness ==
    \E a \in Apisets : AfterPass1(a) /\
        \E i \in DOMAIN Entries(a) :
            LET e == Entries(a)[i]
                used == ForwarderModuleList(ParsedEntries(a))
            IN /\ e.forwarder # <<>>
               /\ \E m \in Range(used) \ {e.forwarder[1]} :
                     /\ Exports(m, e.name)
                     /\ Count(used, m) < Count(used, e.forwarder[1])
                     /\ IndexIn(used, m) < IndexIn(used, e.forwarder[1])

BlacklistedTarget(line) ==
    \E m \in DOMAIN module_lookup, b \in FUNCTION_BLACKLIST :
        line.fwd \in {m \o "." \o b, m \o ".__imp_" \o b, m \o "._imp__" \o b}

\* C3 as stated: every record with a blacklisted name is in the emitted file
\* as a stub line, and no line carries a blacklisted name with a forward target.
C3_BlacklistedStub ==
    \A a \in Apisets : Written(a) =>
        /\ \A i \in DOMAIN Entries(a) :
              Entries(a)[i].name \in FUNCTION_BLACKLIST =>
                 \E l \in Lines(a) : l.callconv = "stub" /\ l.name = Entries(a)[i].name
        /\ \A l \in Lines(a) : ~(l.name \in FUNCTION_BLACKLIST /\ l.fwd # "")

\* C3 amended: a record with a blacklisted name is not emitted at all: no
\* line of the file, stub or forward, carries a blacklisted name or forwards
\* to one, whether or not the resolver found a forward target.
C3_BlacklistedOmitted ==
    \A a \in Apisets : Written(a) =>
        \A l \in Lines(a) : l.name \notin FUNCTION_BLACKLIST /\ ~BlacklistedTarget(l)

\* A file is written whose apiset has a blacklisted record with a forward target
C3_Witness ==
    \E a \in Apisets : Written(a) /\
        \E i \in DOMAIN Entries(a) :
            Entries(a)[i].name \in FUNCTION_BLACKLIST /\ Entries(a)[i].forwarder # <<>>

\* C5: every unnamed record ('@', numeric ordinal N, no parse-time forward
\* target) has no forward target after both passes and has its own stub line
\* Ordinal<N> in the emitted file, however many unnamed records there are.
C5_UnnamedStubs ==
    \A a \in Apisets : Written(a) =>
        \A i \in DOMAIN Entries(a) :
            LET p == ParsedEntries(a)[i]
            IN (p.name = "@" /\ p.ord # "@" /\ p.forwarder = <<>>) =>
                 /\ Entries(a)[i].forwarder = <<>>
                 /\ \E l \in Lines(a) : /\ l.callconv = "stub"
                                        /\ l.ord = p.ord
                                        /\ l.name = "Ordinal" \o p.ord

EntriesOrNone(w, a) == IF a \in DOMAIN w THEN w[a].entries ELSE <<>>

\* C8 as stated: once a record has a forward target (from parsing or from a
\* pass), no later resolver step clears or replaces it or its architecture set.
C8_NeverReplaced ==
    [][\A a \in Apisets : \A i \in DOMAIN Entries(a) :
          Entries(a)[i].forwarder # <<>> =>
             /\ EntriesOrNone(wine_apisets', a)[i].forwarder = Entries(a)[i].forwarder
             /\ EntriesOrNone(wine_apisets', a)[i].arch = Entries(a)[i].arch]_vars

\* C8 amended: pass 1 acts on every named record, discarding a parse-time
\* forward target and architecture set and searching anew; it leaves the
\* unnamed '@' records as parsed.  A record that has a forward target after
\* pass 1 is left unchanged by pass 2 and by every resolver step after it.
C8_FixedAfterPass1 ==
    [][(pc = "pass1" \/ pc = "pass2") =>
          (\A a \in Apisets : \A i \in DOMAIN Entries(a) :
              LET e == Entries(a)[i]
                  after == EntriesOrNone(wine_apisets', a)[i]
              IN (e.name = "@" => after = e)
                 /\ (e.forwarder # <<>> /\ (AfterPass1(a) \/ AfterPass2(a)) => after = e))]_vars

\* Pass 2 is over for an apiset with a record that pass 1 gave another
\* forward target than its line had, and a record that pass 2 resolved
C8_Witness ==
    \E a \in Apisets : AfterPass2(a) /\
        \E i, j \in DOMAIN Entries(a) :
            /\ ParsedEntries(a)[i].forwarder # <<>>
            /\ Entries(a)[i].forwarder # <<>>
            /\ Entries(a)[i].forwarder # ParsedEntries(a)[i].forwarder
            /\ ParsedEntries(a)[j].forwarder = <<>>
            /\ Entries(a)[j].forwarder # <<>>

\* m1 wins over m2 by the claim's rule: more architectures, or as many and
\* registered earlier
WiderOrFirst(m1, m2, name) ==
    LET a1 == FindArch(module_lookup[m1], name)
        a2 == FindArch(module_lookup[m2], name)
    IN \/ ArchLen(a1) > ArchLen(a2)
       \/ ArchLen(a1) = ArchLen(a2) /\ IndexIn(RosModules, m1) < IndexIn(RosModules, m2)

\* m1 wins over m2 by the code's rule: the greater bit mask, or the same and
\* iterated earlier by the set of exporting modules
GreaterOrHashedFirst(m1, m2, name) ==
    LET a1 == FindArch(module_lookup[m1], name)
        a2 == FindArch(module_lookup[m2], name)
    IN \/ a1 > a2
       \/ a1 = a2 /\ IndexIn(hash_order, m1) < IndexIn(hash_order, m2)

\* What C2 says of the step pass 2 takes on record i of apiset a, the order of
\* the modules taken as the claim or as the code has it
Pass2Picks(a, i, as_code) ==
    LET e == Entries(a)[i]
        after == EntriesOrNone(wine_apisets', a)[i]
    IN (e.forwarder = <<>> /\ e.name # "@" /\ Cardinality(Exporters(e.name)) > 1) =>
         /\ after.forwarder # <<>>
         /\ after.forwarder[1] \in Exporters(e.name)
         /\ after.forwarder[2] = e.name
         /\ \A m \in Exporters(e.name) \ {after.forwarder[1]} :
               IF as_code THEN GreaterOrHashedFirst(after.forwarder[1], m, e.name)
               ELSE WiderOrFirst(after.forwarder[1], m, e.name)
         /\ after.arch = FindArch(module_lookup[after.forwarder[1]], e.name)
         /\ after.callconv = FindCallconv(module_lookup[after.forwarder[1]], e.name)

Emitted(a, i) ==
    /\ Entries(a)[i].name \notin FUNCTION_BLACKLIST
    /\ \A j \in 1..(i - 1) : Entries(a)[j].name # Entries(a)[i].name

Plain(e) == e.forwarder[1] \o "." \o e.forwarder[2]
Imp64(e) == e.forwarder[1] \o ".__imp_" \o e.forwarder[2]
Imp32(e) == e.forwarder[1] \o "._imp__" \o e.forwarder[2]

\* The lines of the file that record i, which has a forward target, wrote
RecordLines(a, i) ==
    LET e == Entries(a)[i]
    IN {k \in DOMAIN spec_out[a] :
          spec_out[a][k].ord = e.ord /\ spec_out[a][k].fwd \in {Plain(e), Imp64(e), Imp32(e)}}

ArchsOf(e) == {b \in ArchBits : ArchHas(e.arch, b)}
Listed(line) == {FROM_STR[n] : n \in line.arch}
Split(e) == e.callconv = "extern" /\ ArchHas(e.arch, x86_64)

\* C4: a resolved extern record for x86_64 and at least one other
\* architecture is emitted as exactly two lines, -arch=x86_64 to
\* module.__imp_symbol and the other architectures to module._imp__symbol,
\* disjoint and together the record's set; every forward line adds 0x100 to
\* the size estimate.
C4_ExternSplit ==
    \A a \in Apisets : Written(a) =>
        /\ \A i \in DOMAIN Entries(a) :
             LET e == Entries(a)[i]
             IN (Emitted(a, i) /\ e.forwarder # <<>> /\ Split(e) /\ e.arch # x86_64) =>
                  /\ Cardinality(RecordLines(a, i)) = 2
                  /\ \E k1, k2 \in RecordLines(a, i) :
                        LET l1 == spec_out[a][k1]
                            l2 == spec_out[a][k2]
                        IN /\ l1.has_arch /\ Listed(l1) = {x86_64} /\ l1.fwd = Imp64(e)
                           /\ l2.has_arch /\ Listed(l2) = ArchsOf(e) \ {x86_64}
                           /\ l2.fwd = Imp32(e)
                           /\ l1.callconv = "extern" /\ l2.callconv = "extern"
                           /\ Listed(l1) \cap Listed(l2) = {}
                           /\ Listed(l1) \cup Listed(l2) = ArchsOf(e)
        /\ estimate_size[a] =
             StubSize * Cardinality({k \in DOMAIN spec_out[a] : spec_out[a][k].callconv = "stub"})
             + ForwardSize * Cardinality({k \in DOMAIN spec_out[a] : spec_out[a][k].callconv # "stub"})

\* A file is written with a split extern record
C4_Witness ==
    \E a \in Apisets : Written(a) /\
        \E i \in DOMAIN Entries(a) :
            /\ Emitted(a, i) /\ Entries(a)[i].forwarder # <<>>
            /\ Split(Entries(a)[i]) /\ ArchHas(Entries(a)[i].arch, arm)
            /\ Cardinality(RecordLines(a, i)) = 2

ArchOptionRule(a, i) ==
    \A k \in RecordLines(a, i) :
        /\ spec_out[a][k].has_arch <=> Entries(a)[i].arch # ArchAny
        /\ spec_out[a][k].has_arch => Listed(spec_out[a][k]) = ArchsOf(Entries(a)[i])

\* C6 as stated: the lines of every emitted record with a forward target, of
\* any calling convention, carry -arch= iff the record's architecture set is
\* not 'any', and the option lists exactly the record's architectures.
C6_ArchOptionAnyCallconv ==
    \A a \in Apisets : Written(a) =>
        \A i \in DOMAIN Entries(a) :
            (Emitted(a, i) /\ Entries(a)[i].forwarder # <<>>) =>
               RecordLines(a, i) # {} /\ ArchOptionRule(a, i)

\* C6 amended: that holds of every emitted record with a forward target
\* except the extern records whose architecture set contains x86_64; the
\* lines of those always carry -arch=, each listing its part of the set.
C6_ArchOptionUnlessSplit ==
    \A a \in Apisets : Written(a) =>
        \A i \in DOMAIN Entries(a) :
            (Emitted(a, i) /\ Entries(a)[i].forwarder # <<>>) =>
               /\ RecordLines(a, i) # {}
               /\ ~Split(Entries(a)[i]) => ArchOptionRule(a, i)
               /\ Split(Entries(a)[i]) =>
                    \A k \in RecordLines(a, i) :
                        /\ spec_out[a][k].has_arch
                        /\ Listed(spec_out[a][k]) \subseteq ArchsOf(Entries(a)[i])

\* A file is written with a function forwarded for every architecture,
\* hence without -arch=
C6_Witness ==
    \E a \in Apisets : Written(a) /\
        \E i \in DOMAIN Entries(a) :
            /\ Emitted(a, i) /\ Entries(a)[i].forwarder # <<>>
            /\ Entries(a)[i].callconv = "stdcall" /\ Entries(a)[i].arch = ArchAny
            /\ \E k \in RecordLines(a, i) : ~spec_out[a][k].has_arch

\* C9: the assertion 'self.arch != Arch()' of SpecEntry.write never fails,
\* the recursive write of an extern record included.
C9_ArchAssertionHolds == failure # "arch"

\* C7: the base addresses of the manifest start at 0x60000000 and are
\* strictly increasing in manifest order, whatever the size estimates.
C7_StrictlyIncreasing ==
    \A k \in DOMAIN cmakelists :
        /\ k = 1 => cmakelists[k].baseaddress = BaseStart
        /\ k > 1 => cmakelists[k].baseaddress > cmakelists[k - 1].baseaddress

Callconvs(m, name) ==
    [k \in DOMAIN Find(module_lookup[m], name) |-> Find(module_lookup[m], name)[k].callconv]

\* C10: find_callconv(name) aborts whenever two records of the name differ in
\* calling convention and one of them is 'extern', in whatever order they
\* stand; when records differ and none is 'extern' it returns the last
\* differing convention.  The call is the one pass 1 makes on the module a
\* record's line names, the only candidate.
C10_ExternMismatchAborts ==
    \A a \in Apisets : \A i \in DOMAIN Entries(a) :
        LET p == ParsedEntries(a)[i]
            used == ForwarderModuleList(ParsedEntries(a))
        IN (/\ pc \notin {"parse", "pass1"}
            /\ i = 1 /\ p.name # "@" /\ p.forwarder # <<>>
            /\ Range(used) = {p.forwarder[1]}
            /\ p.forwarder[1] \in DOMAIN module_lookup) =>
             LET ccs == Callconvs(p.forwarder[1], p.name)
                 differ == \E j, k \in DOMAIN ccs : ccs[j] # ccs[k]
                 mixed == \E j, k \in DOMAIN ccs : ccs[j] # ccs[k] /\ ccs[j] = "extern"
             IN /\ mixed => failure = "callconv"
                /\ (differ /\ ~mixed) =>
                      failure = "" /\ Entries(a)[i].callconv = ccs[Len(ccs)]

====
